---- MODULE Spec2Model ----
(***************************************************************************)
(* A model of goard: the session store, the sign-in / sign-up / sign-out   *)
(* orchestration, session validation with lazy expiry, and role mutation   *)
(* with propagation to live sessions.  Request handlers run concurrently,  *)
(* one per process; a handler is cut into steps at its accesses to shared  *)
(* state (the store, the credential repository, the account provider) and  *)
(* at its cancellation checks.                                             *)
(***************************************************************************)
EXTENDS Integers, Sequences, FiniteSets, TLC

\* ------------------------------------------------------------------ bounds

\* the longest list of roles diffSlices is called with
MaxRoles == 2
\* number of session ids (uuid.New) the run may draw
MaxSessions == 2
\* the clock runs from 0 to MaxTime, in ticks
MaxTime == 3
\* clock ticks per second: time.Time has sub-second precision, Unix() has none
TicksPerSecond == 2
\* the configured session time to live, in ticks
TTL == 2

\* the request handlers that may run at the same time
Procs == {"p1", "p2"}

\* ------------------------------------------------------------ configuration

AdminLogin == "admin"
AdminPassword == "root"
\* Admin.Account, as the id of the account it refers to
AdminAccount == 0
\* the credentials id signinAsAdmin gives the synthesized admin credentials
AdminCredentialsID == 0

\* DEFAULT_TTL (8 hours), on the scale of the model's clock
DEFAULT_TTL == TTL

\* time.Duration.Milliseconds(), of a duration in ticks
Milliseconds(d) == d * (1000 \div TicksPerSecond)

\* New: the ttl the Goard keeps for Config.TTL
New(configTTL) == IF Milliseconds(configTTL) = 0 THEN DEFAULT_TTL ELSE configTTL

AccountIds == {1, 2}
SessionIds == 1..MaxSessions

\* the login and password pairs a sign-in is tried with
SigninInputs ==
    {<<"", "pw">>, <<"alice", "">>, <<"alice", "pw">>, <<"alice", AdminPassword>>,
     <<"bob", "pw">>, <<AdminLogin, AdminPassword>>, <<AdminLogin, "pw">>}

\* the outcomes of a select on ctx.Done(): the request context is cancelled or not
CtxDone == BOOLEAN

\* ------------------------------------------------------------------ errors

Nil == "nil"
ErrAccessDenied == "access denied"
ErrRoleConflict == "role already exists"
ErrCredentialsConflict == "credentials already exists"
ErrCredentialsNotFound == "credentials not found"
ErrCredentialsMismatch == "credentials mismatch"
ErrBadCredentials == "bad credentials"
ErrSessionNotFound == "session not found"
ErrSessionExpired == "session expired"
\* ctx.Err() of a cancelled request context
ErrCanceled == "context canceled"
\* any other error of a collaborator (driver, network, account service)
ErrInternal == "internal"

\* ------------------------------------------------------------- pure helpers

\* time.Time.Unix(): whole seconds, the sub-second part dropped
Unix(t) == t \div TicksPerSecond

\* Hasher.Hash / Hasher.Compare: a hash is not the password, and Compare
\* accepts exactly the password the hash was made from
Hash(password) == <<"bcrypt", password>>

Compare(hash, password) == hash = Hash(password)

\* noValidation.Validate
Validate(login, password) == ~(login = "" \/ password = "")

\* a nil *Credentials
NoCredentials == [id |-> -1, login |-> "", passhash |-> <<>>, roles |-> <<>>]

SeqToSet(s) == {s[i] : i \in 1..Len(s)}

\* ------------------------------------------------------------ session store

\* store.CreateSession: s.sessions[session.ID()] = session
CreateSession(st, id, session) ==
    [i \in DOMAIN st \cup {id} |-> IF i = id THEN session ELSE st[i]]

RevokeSessionAll(st, id) == <<>>

\* store.RevokeSession: delete(s.sessions, id)
RevokeSession(st, id) == [i \in DOMAIN st \ {id} |-> st[i]]

\* store.Count: len(s.sessions)
Count(st) == Cardinality(DOMAIN st)

\* store.InvokeSession: whether the id is a key of s.sessions
Found(st, id) == id \in DOMAIN st

\* store.ForEach: the copy of the sessions taken under the read lock
Snapshot(st) == st

\* the entries of a snapshot on which a callback acts (the callback returns
\* nil at once on every other entry, touching nothing)
Matching(snap, ids) == [i \in DOMAIN snap \cap ids |-> snap[i]]

SessionsOfLogin(st, login) == {i \in DOMAIN st : st[i].credentials.login = login}

SessionsOfAccount(st, id) == {i \in DOMAIN st : st[i].credentials.id = id}

\* sync.RWMutex, as the goroutine that holds it for writing and the goroutines
\* that hold it for reading
NoWriter == "none"

Unlocked == [writer |-> NoWriter, readers |-> {}]

\* no call of diffSlices
NoDiff == [old |-> <<>>, new |-> <<>>, toDelete |-> <<>>, toAdd |-> <<>>, called |-> FALSE]

\* ----------------------------------------------------------------- state

VARIABLES
    now,        \* the wall clock, in ticks
    store,      \* store.sessions: session id -> Session
    nextId,     \* the next fresh uuid
    db,         \* the credential repository: credentials id -> record
    accounts,   \* the ids of the accounts the account provider holds
    proc,       \* per handler: its position, inputs, locals and result
    pending,    \* ids whose fire-and-forget revocation goroutine has not run
    ttl,        \* Goard.ttl, as New left it
    mu,         \* store.mu: the writer and the readers that hold the lock
    lin,        \* the sessions after the store calls so far, one after another
    diff        \* a call of diffSlices: its arguments and what it returned

vars == <<now, store, nextId, db, accounts, proc, pending, ttl, mu, lin, diff>>

\* a handler that is not running
Idle ==
    [pc |-> "idle", op |-> "none",
     login |-> "", password |-> "", sid |-> 0, account |-> 0, role |-> "",
     snap |-> <<>>, credentials |-> NoCredentials, acc |-> 0, err |-> Nil,
     passhash |-> <<>>, nowv |-> 0,
     result |-> Nil, ret |-> 0,
     called |-> {}, deleted |-> {}, scanned |-> {}, overlapped |-> FALSE,
     call |-> "none", arg |-> <<>>, read |-> <<>>, expect |-> <<>>,
     cb |-> "none", snap0 |-> {}, visited |-> {},
     filter |-> "", status |-> "none", served |-> FALSE, filtered |-> FALSE,
     ctxDone |-> FALSE]

InFlight(p) == proc[p].pc \notin {"idle", "done"}

\* proc with the fields of r replaced in p's record
Upd(p, r) ==
    [proc EXCEPT ![p] =
        [f \in DOMAIN proc[p] |-> IF f \in DOMAIN r THEN r[f] ELSE proc[p][f]]]

\* the handler returns err (nil on success)
Return(p, err) == Upd(p, [pc |-> "done", result |-> err])

Init ==
    /\ ttl = New(TTL)
    /\ mu = Unlocked
    /\ lin = <<>>
    /\ diff = NoDiff
    /\ now = 0
    /\ store = <<>>
    /\ nextId = 1
    /\ db = (1 :> [login |-> "alice", passhash |-> Hash("pw"), roles |-> <<"editor">>])
    /\ accounts = {1}
    /\ proc = [p \in Procs |-> Idle]
    /\ pending = {}

\* ------------------------------------------------- credential repository

\* the record of a repository row, as the *Credentials a lookup returns
Credentials(id) ==
    [id |-> id, login |-> db[id].login, passhash |-> db[id].passhash,
     roles |-> db[id].roles]

\* Database.CredentialsByLogin: the results the call may give
CredentialsByLogin(login) ==
    LET hit == {id \in DOMAIN db : db[id].login = login}
    IN  {[err |-> ErrInternal, credentials |-> NoCredentials]}
        \cup (IF hit = {}
              THEN {[err |-> ErrCredentialsNotFound, credentials |-> NoCredentials]}
              ELSE {[err |-> Nil, credentials |-> Credentials(id)] : id \in hit})

\* Database.CredentialsByID: the results the call may give
CredentialsByID(id) ==
    {[err |-> ErrInternal, credentials |-> NoCredentials]}
    \cup (IF id \in DOMAIN db
          THEN {[err |-> Nil, credentials |-> Credentials(id)]}
          ELSE {[err |-> ErrCredentialsNotFound, credentials |-> NoCredentials]})

\* ------------------------------------------------------ clock, environment

Tick ==
    /\ now < MaxTime
    /\ now' = now + 1
    /\ UNCHANGED <<store, nextId, db, accounts, proc, pending, ttl, mu, lin, diff>>

\* the caller has its answer; the handler's frame is gone
Finish(p) ==
    /\ proc[p].pc = "done"
    /\ proc' = [proc EXCEPT ![p] = Idle]
    /\ UNCHANGED <<now, store, nextId, db, accounts, pending, ttl, mu, lin, diff>>

\* ----------------------------------------------------------------- sign-in

SigninsInFlight == Cardinality({q \in Procs : InFlight(q) /\ proc[q].op = "signin"})

OtherSignins(p, login) ==
    {q \in Procs \ {p} : InFlight(q) /\ proc[q].op = "signin" /\ proc[q].login = login}

\* Goard.SignIn hands the decoded login and password to Goard.signin
StartSignin(p, login, password) ==
    /\ proc[p].pc = "idle"
    /\ nextId + SigninsInFlight <= MaxSessions
    /\ proc' = [q \in Procs |->
                 IF q = p
                 THEN [Idle EXCEPT !.pc = "si_begin", !.op = "signin",
                                   !.login = login, !.password = password,
                                   !.overlapped = OtherSignins(p, login) # {}]
                 ELSE IF q \in OtherSignins(p, login)
                      THEN [proc[q] EXCEPT !.overlapped = TRUE]
                      ELSE proc[q]]
    /\ UNCHANGED <<now, store, nextId, db, accounts, pending, ttl, mu, lin, diff>>

SigninScanNone(snap, login) == <<>>

SigninScanMatchesOthers(snap, login) ==
    Matching(snap, DOMAIN snap \ SessionsOfLogin(snap, login))

\* the callback of signin's ForEach: it revokes the sessions of the login
SigninScanMatches(snap, login) == Matching(snap, SessionsOfLogin(snap, login))

SigninBeginCtxFirst(p) ==
    /\ proc[p].pc = "si_begin"
    /\ \E done \in CtxDone :
         proc' =
           IF done
           THEN Return(p, ErrCanceled)
           ELSE IF proc[p].login = "" \/ proc[p].password = ""
           THEN Return(p, ErrBadCredentials)
           ELSE Upd(p, [pc |-> "si_scan",
                        snap |-> SigninScanMatches(Snapshot(store), proc[p].login)])
    /\ UNCHANGED <<now, store, nextId, db, accounts, pending, ttl, mu, lin, diff>>

\* signin, to the snapshot of ForEach
SigninBegin(p) ==
    /\ proc[p].pc = "si_begin"
    /\ \E done \in CtxDone :
         proc' =
           IF proc[p].login = "" \/ proc[p].password = ""
           THEN Return(p, ErrBadCredentials)
           ELSE IF done
           THEN Return(p, ErrCanceled)
           ELSE Upd(p, [pc |-> "si_scan",
                        snap |-> SigninScanMatches(Snapshot(store), proc[p].login)])
    /\ UNCHANGED <<now, store, nextId, db, accounts, pending, ttl, mu, lin, diff>>

\* one call of the callback on a session of the login: RevokeSession
SigninRevoke(p, i) ==
    /\ proc[p].pc = "si_scan"
    /\ i \in DOMAIN proc[p].snap
    /\ store' = RevokeSession(store, i)
    /\ proc' = Upd(p, [snap |-> RevokeSession(proc[p].snap, i),
                       scanned |-> proc[p].scanned \cup {i}])
    /\ UNCHANGED <<now, nextId, db, accounts, pending, ttl, mu, lin, diff>>

IsAdminSignin(p) ==
    proc[p].login = AdminLogin /\ proc[p].password = AdminPassword

\* the Session signinAsAdmin builds
AdminSession ==
    [account |-> AdminAccount,
     credentials |-> [id |-> AdminCredentialsID, login |-> AdminLogin,
                      passhash |-> <<>>, roles |-> <<"admin">>],
     exp |-> now + ttl, iss |-> now, admin |-> FALSE]

\* the admin match and signinAsAdmin
SigninAsAdmin(p) ==
    /\ proc[p].pc = "si_scan"
    /\ proc[p].snap = <<>>
    /\ IsAdminSignin(p)
    /\ \E done \in CtxDone :
         IF done
         THEN /\ proc' = Return(p, ErrCanceled)
              /\ UNCHANGED <<store, nextId>>
         ELSE /\ store' = CreateSession(store, nextId, AdminSession)
              /\ nextId' = nextId + 1
              /\ proc' = Upd(p, [pc |-> "done", result |-> Nil, ret |-> nextId])
    /\ UNCHANGED <<now, db, accounts, pending, ttl, mu, lin, diff>>

\* no admin match: CredentialsByLogin
SigninLookup(p) ==
    /\ proc[p].pc = "si_scan"
    /\ proc[p].snap = <<>>
    /\ ~IsAdminSignin(p)
    /\ \E done \in CtxDone :
         IF done
         THEN proc' = Return(p, ErrCanceled)
         ELSE \E r \in CredentialsByLogin(proc[p].login) :
                proc' = IF r.err # Nil
                        THEN Upd(p, [pc |-> "done", result |-> r.err,
                                     called |-> proc[p].called \cup {"database"}])
                        ELSE Upd(p, [pc |-> "si_account", credentials |-> r.credentials,
                                     called |-> proc[p].called \cup {"database"}])
    /\ UNCHANGED <<now, store, nextId, db, accounts, pending, ttl, mu, lin, diff>>

\* App.AccountByID: the results the call may give
AccountByID(id) ==
    {[err |-> ErrInternal, account |-> 0]}
    \cup (IF id \in accounts THEN {[err |-> Nil, account |-> id]} ELSE {})

SigninAccount(p) ==
    /\ proc[p].pc = "si_account"
    /\ \E done \in CtxDone :
         IF done
         THEN proc' = Return(p, ErrCanceled)
         ELSE \E r \in AccountByID(proc[p].credentials.id) :
                proc' = IF r.err # Nil
                        THEN Upd(p, [pc |-> "done", result |-> r.err,
                                     called |-> proc[p].called \cup {"app"}])
                        ELSE Upd(p, [pc |-> "si_compare", acc |-> r.account,
                                     called |-> proc[p].called \cup {"app"}])
    /\ UNCHANGED <<now, store, nextId, db, accounts, pending, ttl, mu, lin, diff>>

SigninCompare(p) ==
    /\ proc[p].pc = "si_compare"
    /\ \E done \in CtxDone :
         proc' =
           IF done
           THEN Return(p, ErrCanceled)
           ELSE IF ~Compare(proc[p].credentials.passhash, proc[p].password)
           THEN Upd(p, [pc |-> "done", result |-> ErrCredentialsMismatch,
                        called |-> proc[p].called \cup {"hasher"}])
           ELSE Upd(p, [pc |-> "si_create",
                        called |-> proc[p].called \cup {"hasher"}])
    /\ UNCHANGED <<now, store, nextId, db, accounts, pending, ttl, mu, lin, diff>>

\* the Session signin builds for the credentials it has verified
UserSession(p) ==
    [account |-> proc[p].acc, credentials |-> proc[p].credentials,
     exp |-> now + ttl, iss |-> now, admin |-> FALSE]

SigninCreateExclusive(p) ==
    /\ proc[p].pc = "si_create"
    /\ \E done \in CtxDone :
         IF done
         THEN /\ proc' = Return(p, ErrCanceled)
              /\ UNCHANGED <<store, nextId>>
         ELSE /\ store' = CreateSession(
                            Matching(store, DOMAIN store \ SessionsOfLogin(store, proc[p].login)),
                            nextId, UserSession(p))
              /\ nextId' = nextId + 1
              /\ proc' = Upd(p, [pc |-> "done", result |-> Nil, ret |-> nextId])
    /\ UNCHANGED <<now, db, accounts, pending, ttl, mu, lin, diff>>

\* the last context check and CreateSession
SigninCreate(p) ==
    /\ proc[p].pc = "si_create"
    /\ \E done \in CtxDone :
         IF done
         THEN /\ proc' = Return(p, ErrCanceled)
              /\ UNCHANGED <<store, nextId>>
         ELSE /\ store' = CreateSession(store, nextId, UserSession(p))
              /\ nextId' = nextId + 1
              /\ proc' = Upd(p, [pc |-> "done", result |-> Nil, ret |-> nextId])
    /\ UNCHANGED <<now, db, accounts, pending, ttl, mu, lin, diff>>

Signin(p) ==
    \/ \E in \in SigninInputs : StartSignin(p, in[1], in[2])
    \/ SigninBegin(p)
    \/ \E i \in SessionIds : SigninRevoke(p, i)
    \/ SigninAsAdmin(p)
    \/ SigninLookup(p)
    \/ SigninAccount(p)
    \/ SigninCompare(p)
    \/ SigninCreate(p)

\* ----------------------------------------------------------------- sign-up

\* the login and password pairs a sign-up is tried with
SignupInputs == {<<"alice", "pw">>, <<"bob", "pw">>, <<"bob", "">>, <<"", "pw">>}

\* Goard.SignUp hands the decoded account, login and password to Goard.signup
StartSignup(p, login, password) ==
    /\ proc[p].pc = "idle"
    /\ proc' = [proc EXCEPT ![p] =
                 [Idle EXCEPT !.pc = "su_begin", !.op = "signup",
                              !.login = login, !.password = password]]
    /\ UNCHANGED <<now, store, nextId, db, accounts, pending, ttl, mu, lin, diff>>

\* App.CreateAccount: an error, or an account under an id the application chooses
CreateAccount == {[err |-> ErrInternal, id |-> 0]} \cup {[err |-> Nil, id |-> a] : a \in AccountIds}

\* signup, through Validate and CreateAccount; no rollback is deferred yet
SignupCreateAccount(p) ==
    /\ proc[p].pc = "su_begin"
    /\ \E done \in CtxDone :
         IF done
         THEN /\ proc' = Return(p, ErrCanceled)
              /\ UNCHANGED accounts
         ELSE IF ~Validate(proc[p].login, proc[p].password)
         THEN /\ proc' = Return(p, ErrBadCredentials)
              /\ UNCHANGED accounts
         ELSE \E r \in CreateAccount :
                IF r.err # Nil
                THEN /\ proc' = Upd(p, [pc |-> "done", result |-> r.err,
                                        called |-> proc[p].called \cup {"app"}])
                     /\ UNCHANGED accounts
                ELSE /\ proc' = Upd(p, [pc |-> "su_byid", acc |-> r.id, err |-> Nil,
                                        called |-> proc[p].called \cup {"app"}])
                     /\ accounts' = accounts \cup {r.id}
    /\ UNCHANGED <<now, store, nextId, db, pending, ttl, mu, lin, diff>>

\* signup returns ret after the rollback was deferred: the deferred function reads
\* the local variable err (not the value returned) and calls DeleteAccount when it
\* is not nil; DeleteAccount may itself fail, which is only printed
SignupReturn(p, ret, err, called) ==
    IF err # Nil
    THEN /\ proc' = Upd(p, [pc |-> "done", result |-> ret, err |-> err,
                            called |-> called \cup {"app"},
                            deleted |-> proc[p].deleted \cup {proc[p].acc}])
         /\ \E ok \in BOOLEAN :
              accounts' = IF ok THEN accounts \ {proc[p].acc} ELSE accounts
    ELSE /\ proc' = Upd(p, [pc |-> "done", result |-> ret, err |-> err,
                            called |-> called])
         /\ UNCHANGED accounts

\* CredentialsByID(acc.GetID()): its error is assigned to the local err
SignupByID(p) ==
    /\ proc[p].pc = "su_byid"
    /\ \E done \in CtxDone :
         IF done
         THEN SignupReturn(p, ErrCanceled, proc[p].err, proc[p].called)
         ELSE \E r \in CredentialsByID(proc[p].acc) :
                LET called == proc[p].called \cup {"database"}
                IN  IF r.err = Nil
                    THEN SignupReturn(p, ErrCredentialsConflict, r.err, called)
                    ELSE IF r.err # ErrCredentialsNotFound
                    THEN SignupReturn(p, r.err, r.err, called)
                    ELSE /\ proc' = Upd(p, [pc |-> "su_bylogin", err |-> r.err,
                                            called |-> called])
                         /\ UNCHANGED accounts
    /\ UNCHANGED <<now, store, nextId, db, pending, ttl, mu, lin, diff>>

\* CredentialsByLogin(login): its error is a new variable of the if statement,
\* the local err keeps the value CredentialsByID left in it
SignupByLogin(p) ==
    /\ proc[p].pc = "su_bylogin"
    /\ \E done \in CtxDone :
         IF done
         THEN SignupReturn(p, ErrCanceled, proc[p].err, proc[p].called)
         ELSE \E r \in CredentialsByLogin(proc[p].login) :
                LET called == proc[p].called \cup {"database"}
                IN  IF r.err = Nil
                    THEN SignupReturn(p, ErrCredentialsConflict, proc[p].err, called)
                    ELSE IF r.err # ErrCredentialsNotFound
                    THEN SignupReturn(p, r.err, proc[p].err, called)
                    ELSE /\ proc' = Upd(p, [pc |-> "su_hash", called |-> called])
                         /\ UNCHANGED accounts
    /\ UNCHANGED <<now, store, nextId, db, pending, ttl, mu, lin, diff>>

\* Hasher.Hash: an error, or the hash
HashResults(password) ==
    {[err |-> ErrInternal, hash |-> <<>>], [err |-> Nil, hash |-> Hash(password)]}

SignupHash(p) ==
    /\ proc[p].pc = "su_hash"
    /\ \E done \in CtxDone :
         IF done
         THEN SignupReturn(p, ErrCanceled, proc[p].err, proc[p].called)
         ELSE \E r \in HashResults(proc[p].password) :
                LET called == proc[p].called \cup {"hasher"}
                IN  IF r.err # Nil
                    THEN SignupReturn(p, r.err, r.err, called)
                    ELSE /\ proc' = Upd(p, [pc |-> "su_store", err |-> r.err,
                                            passhash |-> r.hash, called |-> called])
                         /\ UNCHANGED accounts
    /\ UNCHANGED <<now, store, nextId, db, pending, ttl, mu, lin, diff>>

\* Database.CreateCredentials: creds_id and creds_login are UNIQUE in the schema,
\* so a row with the id or the login makes the insert fail; it may fail anyway
CreateCredentials(id, login) ==
    {ErrInternal} \cup
    (IF id \in DOMAIN db \/ \E c \in DOMAIN db : db[c].login = login THEN {} ELSE {Nil})

SignupStore(p) ==
    /\ proc[p].pc = "su_store"
    /\ \E done \in CtxDone :
         IF done
         THEN /\ SignupReturn(p, ErrCanceled, proc[p].err, proc[p].called)
              /\ UNCHANGED db
         ELSE \E e \in CreateCredentials(proc[p].acc, proc[p].login) :
                /\ SignupReturn(p, e, e, proc[p].called \cup {"database"})
                /\ db' = IF e # Nil THEN db
                         ELSE [i \in DOMAIN db \cup {proc[p].acc} |->
                                 IF i = proc[p].acc
                                 THEN [login |-> proc[p].login,
                                       passhash |-> proc[p].passhash, roles |-> <<>>]
                                 ELSE db[i]]
    /\ UNCHANGED <<now, store, nextId, pending, ttl, mu, lin, diff>>

Signup(p) ==
    \/ \E in \in SignupInputs : StartSignup(p, in[1], in[2])
    \/ SignupCreateAccount(p)
    \/ SignupByID(p)
    \/ SignupByLogin(p)
    \/ SignupHash(p)
    \/ SignupStore(p)

\* ---------------------------------------------------------------- sign-out

\* Goard.SignOut hands the carried session id to Goard.signout
StartSignout(p, sid) ==
    /\ proc[p].pc = "idle"
    /\ proc' = [proc EXCEPT ![p] = [Idle EXCEPT !.pc = "so_count", !.op = "signout",
                                                !.sid = sid]]
    /\ UNCHANGED <<now, store, nextId, db, accounts, pending, ttl, mu, lin, diff>>

SignoutCount(p) ==
    /\ proc[p].pc = "so_count"
    /\ proc' = IF Count(store) = 0 THEN Return(p, Nil) ELSE Upd(p, [pc |-> "so_revoke"])
    /\ UNCHANGED <<now, store, nextId, db, accounts, pending, ttl, mu, lin, diff>>

SignoutRevoke(p) ==
    /\ proc[p].pc = "so_revoke"
    /\ \E done \in CtxDone :
         IF done
         THEN /\ proc' = Upd(p, [pc |-> "done", result |-> ErrCanceled, ctxDone |-> TRUE])
              /\ UNCHANGED store
         ELSE /\ store' = RevokeSession(store, proc[p].sid)
              /\ proc' = Upd(p, [pc |-> "done", result |-> Nil, call |-> "revoke",
                                 scanned |-> {proc[p].sid} \cap DOMAIN store])
    /\ UNCHANGED <<now, nextId, db, accounts, pending, ttl, mu, lin, diff>>

Signout(p) ==
    \/ \E sid \in SessionIds : StartSignout(p, sid)
    \/ SignoutCount(p)
    \/ SignoutRevoke(p)

\* ------------------------------------------------------ session validation

\* Goard.Guard hands the carried session id to Goard.session
StartSession(p, sid) ==
    /\ proc[p].pc = "idle"
    /\ proc' = [proc EXCEPT ![p] = [Idle EXCEPT !.pc = "se_count", !.op = "session",
                                                !.sid = sid]]
    /\ UNCHANGED <<now, store, nextId, db, accounts, pending, ttl, mu, lin, diff>>

\* the http statuses Guard writes; Served stands for what the protected
\* handler writes
Unauthorized == "401 Unauthorized"
Forbidden == "403 Forbidden"
InternalServerError == "500 Internal Server Error"
Served == "next.ServeHTTP"

\* the predicate Guard was given: the session has the role the route requires
Filter(role, session) == role \in SeqToSet(session.credentials.roles)

GuardOutcomeIgnoresFilter(err, session, filter) ==
    IF err # Nil
    THEN [status |-> Unauthorized, filtered |-> FALSE, served |-> FALSE]
    ELSE [status |-> Served, filtered |-> TRUE, served |-> TRUE]

\* Guard, after g.session has returned err and session
GuardOutcome(err, session, filter) ==
    IF err # Nil
    THEN [status |-> IF err \in {ErrSessionNotFound, ErrSessionExpired}
                     THEN Unauthorized ELSE InternalServerError,
          filtered |-> FALSE, served |-> FALSE]
    ELSE IF ~Filter(filter, session)
    THEN [status |-> Forbidden, filtered |-> TRUE, served |-> FALSE]
    ELSE [status |-> Served, filtered |-> TRUE, served |-> TRUE]

\* g.session returns err and session; when Guard called it, Guard goes on to
\* its response in the same step (it touches nothing shared in between)
SessionReturn(p, err, session) ==
    LET ret == IF err = Nil THEN proc[p].sid ELSE 0
    IN  IF proc[p].op = "guard"
        THEN LET o == GuardOutcome(err, session, proc[p].filter)
             IN  Upd(p, [pc |-> "done", result |-> err, ret |-> ret,
                         status |-> o.status, filtered |-> o.filtered,
                         served |-> o.served])
        ELSE Upd(p, [pc |-> "done", result |-> err, ret |-> ret])

\* Count, then time.Now()
SessionCount(p) ==
    /\ proc[p].pc = "se_count"
    /\ proc' = IF Count(store) = 0
               THEN SessionReturn(p, ErrSessionNotFound, <<>>)
               ELSE Upd(p, [pc |-> "se_invoke", nowv |-> now])
    /\ UNCHANGED <<now, store, nextId, db, accounts, pending, ttl, mu, lin, diff>>

LiveAtExpiry(session, t) == Unix(session.exp) >= Unix(t)

\* the test of Goard.session that the session is live at the time t
Live(session, t) == Unix(session.exp) > Unix(t)

\* go func() { RevokeSession(context.Background(), sessionID) }(): one more
\* revocation that has not run yet
NoGoRevoke(pend, sid) == pend

GoRevoke(pend, sid) == pend \cup {sid}

\* InvokeSession and the expiry test; an expired session gets a goroutine that
\* revokes it later
SessionInvoke(p) ==
    /\ proc[p].pc = "se_invoke"
    /\ IF ~Found(store, proc[p].sid)
       THEN /\ proc' = SessionReturn(p, ErrSessionNotFound, <<>>)
            /\ UNCHANGED pending
       ELSE IF Live(store[proc[p].sid], proc[p].nowv)
       THEN /\ proc' = SessionReturn(p, Nil, store[proc[p].sid])
            /\ UNCHANGED pending
       ELSE /\ proc' = SessionReturn(p, ErrSessionExpired, <<>>)
            /\ pending' = GoRevoke(pending, proc[p].sid)
    /\ UNCHANGED <<now, store, nextId, db, accounts, ttl, mu, lin, diff>>

\* the goroutine of Goard.session: RevokeSession(context.Background(), sessionID)
AsyncRevoke(i) ==
    /\ i \in pending
    /\ store' = RevokeSession(store, i)
    /\ pending' = pending \ {i}
    /\ UNCHANGED <<now, nextId, db, accounts, proc, ttl, mu, lin, diff>>

Session(p) ==
    \/ \E sid \in SessionIds : StartSession(p, sid)
    \/ SessionCount(p)
    \/ SessionInvoke(p)

\* ------------------------------------------------------------------- guard

\* Container.GetSession found no session id in the request
NoSessionID == 0

\* the roles the guarded routes require
Filters == {"editor"}

\* a request reaches a handler wrapped by Guard(next, filter)
StartGuard(p, sid, filter) ==
    /\ proc[p].pc = "idle"
    /\ proc' = [proc EXCEPT ![p] = [Idle EXCEPT !.pc = "gd_begin", !.op = "guard",
                                                !.sid = sid, !.filter = filter]]
    /\ UNCHANGED <<now, store, nextId, db, accounts, pending, ttl, mu, lin, diff>>

\* Guard: the test of the carried session id, then the call of g.session
GuardBegin(p) ==
    /\ proc[p].pc = "gd_begin"
    /\ proc' = IF proc[p].sid = NoSessionID
               THEN Upd(p, [pc |-> "done", status |-> Unauthorized])
               ELSE Upd(p, [pc |-> "se_count"])
    /\ UNCHANGED <<now, store, nextId, db, accounts, pending, ttl, mu, lin, diff>>

Guard(p) ==
    \/ \E sid \in SessionIds \cup {NoSessionID}, f \in Filters : StartGuard(p, sid, f)
    \/ GuardBegin(p)
    \/ SessionCount(p)
    \/ SessionInvoke(p)

\* ----------------------------------------------------------- role mutation

\* the account and role a grant or a revocation is tried with
RoleInputs == {<<1, "editor">>, <<1, "admin">>}

\* Goard.SetRole / Goard.UnsetRole hand the carried session id and the decoded
\* account and role to Goard.setRole / Goard.unsetRole
StartRole(p, op, sid, account, role) ==
    /\ proc[p].pc = "idle"
    /\ proc' = [proc EXCEPT ![p] =
                 [Idle EXCEPT !.pc = "sr_resolve", !.op = op, !.sid = sid,
                              !.account = account, !.role = role]]
    /\ UNCHANGED <<now, store, nextId, db, accounts, pending, ttl, mu, lin, diff>>

RoleResolveAnySession(p) ==
    /\ proc[p].pc = "sr_resolve"
    /\ proc' = IF ~Found(store, proc[p].sid)
               THEN Return(p, ErrSessionNotFound)
               ELSE Upd(p, [pc |-> "sr_load"])
    /\ UNCHANGED <<now, store, nextId, db, accounts, pending, ttl, mu, lin, diff>>

\* InvokeSession of the acting session id, and the test of its admin flag
RoleResolve(p) ==
    /\ proc[p].pc = "sr_resolve"
    /\ proc' = IF ~Found(store, proc[p].sid)
               THEN Return(p, ErrSessionNotFound)
               ELSE IF ~store[proc[p].sid].admin
               THEN Return(p, ErrAccessDenied)
               ELSE Upd(p, [pc |-> "sr_load"])
    /\ UNCHANGED <<now, store, nextId, db, accounts, pending, ttl, mu, lin, diff>>

\* setRole: the loop over credentials.roles
HasRole(roles, role) == \E i \in 1..Len(roles) : roles[i] = role

\* unsetRole: the roles kept by the filtering loop
WithoutRole(roles, role) ==
    LET keep(r) == r # role IN SelectSeq(roles, keep)

\* CredentialsByID of the target account, and the change of the loaded roles
RoleLoad(p) ==
    /\ proc[p].pc = "sr_load"
    /\ \E r \in CredentialsByID(proc[p].account) :
         LET called == proc[p].called \cup {"database"}
         IN  proc' =
               IF r.err # Nil
               THEN Upd(p, [pc |-> "done", result |-> r.err, called |-> called])
               ELSE IF proc[p].op = "setRole"
               THEN IF HasRole(r.credentials.roles, proc[p].role)
                    THEN Upd(p, [pc |-> "done", result |-> ErrRoleConflict,
                                 called |-> called])
                    ELSE Upd(p, [pc |-> "sr_update", called |-> called,
                                 credentials |->
                                   [r.credentials EXCEPT
                                      !.roles = Append(r.credentials.roles, proc[p].role)]])
               ELSE Upd(p, [pc |-> "sr_update", called |-> called,
                            credentials |->
                              [r.credentials EXCEPT
                                 !.roles = WithoutRole(r.credentials.roles, proc[p].role)]])
    /\ UNCHANGED <<now, store, nextId, db, accounts, pending, ttl, mu, lin, diff>>

DiffSlicesSwapped(old, new) ==
    LET notInNew(r) == r \notin SeqToSet(new)
        notInOld(r) == r \notin SeqToSet(old)
    IN  [toDelete |-> SelectSeq(new, notInOld), toAdd |-> SelectSeq(old, notInNew)]

\* diffSlices
DiffSlices(old, new) ==
    LET notInNew(r) == r \notin SeqToSet(new)
        notInOld(r) == r \notin SeqToSet(old)
    IN  [toDelete |-> SelectSeq(old, notInNew), toAdd |-> SelectSeq(new, notInOld)]

\* the roles of a row after UpdateCredentials has deleted the permissions of
\* toDelete and created those of toAdd
Reconciled(prev, new) ==
    LET d == DiffSlices(prev, new)
        kept(r) == r \notin SeqToSet(d.toDelete)
    IN  SelectSeq(prev, kept) \o d.toAdd

\* Database.UpdateCredentials: the repository after the call, for each result
UpdateCredentials(c) ==
    {[err |-> ErrInternal, db |-> db]}
    \cup {[err |-> Nil,
           db |-> [i \in DOMAIN db |->
                     IF i = c.id
                     THEN [login |-> c.login, passhash |-> c.passhash,
                           roles |-> Reconciled(db[i].roles, c.roles)]
                     ELSE db[i]]]}

RoleUpdate(p) ==
    /\ proc[p].pc = "sr_update"
    /\ \E r \in UpdateCredentials(proc[p].credentials) :
         /\ db' = r.db
         /\ proc' = IF r.err # Nil
                    THEN Upd(p, [pc |-> "done", result |-> r.err])
                    ELSE Upd(p, [pc |-> "sr_scan"])
    /\ UNCHANGED <<now, store, nextId, accounts, pending, ttl, mu, lin, diff>>

\* the callback of the propagation acts on the sessions of the target credentials
RoleScanMatches(snap, id) == Matching(snap, SessionsOfAccount(snap, id))

\* the snapshot of the propagation's ForEach
RoleSnapshot(p) ==
    /\ proc[p].pc = "sr_scan"
    /\ proc' = Upd(p, [pc |-> "sr_propagate",
                       snap |-> RoleScanMatches(Snapshot(store), proc[p].credentials.id)])
    /\ UNCHANGED <<now, store, nextId, db, accounts, pending, ttl, mu, lin, diff>>

\* the Session the callback stores in place of s
Propagated(s, credentials) ==
    [account |-> s.account, credentials |-> credentials,
     exp |-> s.exp, iss |-> s.iss, admin |-> s.admin]

\* one call of the callback on a session of the target: CreateSession of the copy
RolePropagate(p, i) ==
    /\ proc[p].pc = "sr_propagate"
    /\ i \in DOMAIN proc[p].snap
    /\ store' = CreateSession(store, i, Propagated(proc[p].snap[i], proc[p].credentials))
    /\ proc' = Upd(p, [snap |-> RevokeSession(proc[p].snap, i)])
    /\ UNCHANGED <<now, nextId, db, accounts, pending, ttl, mu, lin, diff>>

\* ForEach has called the callback on every entry: the handler returns nil
RoleReturn(p) ==
    /\ proc[p].pc = "sr_propagate"
    /\ proc[p].snap = <<>>
    /\ proc' = Return(p, Nil)
    /\ UNCHANGED <<now, store, nextId, db, accounts, pending, ttl, mu, lin, diff>>

\* a role request up to the admin test
Role(p) ==
    \/ \E sid \in SessionIds, in \in RoleInputs : StartRole(p, "setRole", sid, in[1], in[2])
    \/ \E sid \in SessionIds, in \in RoleInputs : StartRole(p, "unsetRole", sid, in[1], in[2])
    \/ RoleResolve(p)

\* a role request after the admin test
RoleMutation(p) ==
    \/ RoleLoad(p)
    \/ RoleUpdate(p)
    \/ RoleSnapshot(p)
    \/ \E i \in SessionIds : RolePropagate(p, i)
    \/ RoleReturn(p)

\* ------------------------------------------- the store, one call at a time

\* the methods of the store that take mu.Lock(); the others take mu.RLock()
Writers == {"create", "revoke"}

Readers == {"invoke", "count"}

\* a Session a caller hands to CreateSession
StoreSession ==
    [account |-> 1, credentials |-> Credentials(1),
     exp |-> now + ttl, iss |-> now, admin |-> FALSE]

CanLockBesideReaders(m) == m.writer = NoWriter

\* sync.RWMutex.Lock returns once no goroutine holds the lock
CanLock(m) == m.writer = NoWriter /\ m.readers = {}

\* sync.RWMutex.RLock returns once no goroutine holds the lock for writing
CanRLock(m) == m.writer = NoWriter

\* a goroutine calls CreateSession, RevokeSession, InvokeSession or Count
StartStore(p, call, sid) ==
    /\ proc[p].pc = "idle"
    /\ proc' = [proc EXCEPT ![p] =
                 [Idle EXCEPT !.pc = "st_lock", !.op = call, !.call = call,
                              !.sid = sid, !.arg = StoreSession]]
    /\ UNCHANGED <<now, store, nextId, db, accounts, pending, ttl, mu, lin, diff>>

\* s.mu.Lock() or s.mu.RLock()
StoreLock(p) ==
    /\ proc[p].pc = "st_lock"
    /\ IF proc[p].call \in Writers
       THEN /\ CanLock(mu)
            /\ mu' = [mu EXCEPT !.writer = p]
       ELSE /\ CanRLock(mu)
            /\ mu' = [mu EXCEPT !.readers = @ \cup {p}]
    /\ proc' = Upd(p, [pc |-> "st_read"])
    /\ UNCHANGED <<now, store, nextId, db, accounts, pending, ttl, lin, diff>>

\* what InvokeSession or Count returns, on the sessions st
ReadResult(call, st, sid) ==
    IF call = "count"
    THEN [err |-> Nil, value |-> Count(st)]
    ELSE IF Found(st, sid)
    THEN [err |-> Nil, value |-> sid]
    ELSE [err |-> ErrSessionNotFound, value |-> 0]

\* the access to s.sessions: a reader has its answer, a writer has reached the
\* map it is about to change
StoreRead(p) ==
    /\ proc[p].pc = "st_read"
    /\ proc' =
         IF proc[p].call \in Writers
         THEN Upd(p, [pc |-> "st_write", read |-> store])
         ELSE LET r == ReadResult(proc[p].call, store, proc[p].sid)
              IN  Upd(p, [pc |-> "st_unlock", result |-> r.err, ret |-> r.value,
                          expect |-> ReadResult(proc[p].call, lin, proc[p].sid)])
    /\ UNCHANGED <<now, store, nextId, db, accounts, pending, ttl, mu, lin, diff>>

\* the sessions after a CreateSession or a RevokeSession on the sessions st
Written(call, st, sid, session) ==
    IF call = "create" THEN CreateSession(st, sid, session) ELSE RevokeSession(st, sid)

\* s.sessions[session.ID()] = session, or delete(s.sessions, id)
StoreWrite(p) ==
    /\ proc[p].pc = "st_write"
    /\ store' = Written(proc[p].call, proc[p].read, proc[p].sid, proc[p].arg)
    /\ lin' = Written(proc[p].call, lin, proc[p].sid, proc[p].arg)
    /\ proc' = Upd(p, [pc |-> "st_unlock", result |-> Nil, read |-> <<>>])
    /\ UNCHANGED <<now, nextId, db, accounts, pending, ttl, mu, diff>>

\* the deferred s.mu.Unlock() or s.mu.RUnlock(), and the return to the caller
StoreUnlock(p) ==
    /\ proc[p].pc = "st_unlock"
    /\ mu' = IF proc[p].call \in Writers
             THEN [mu EXCEPT !.writer = NoWriter]
             ELSE [mu EXCEPT !.readers = @ \ {p}]
    /\ proc' = Upd(p, [pc |-> IF proc[p].op = "forEach" THEN "fe_loop" ELSE "done",
                       call |-> "none"])
    /\ UNCHANGED <<now, store, nextId, db, accounts, pending, ttl, lin, diff>>

\* what a callback does with the session it is given: it revokes it (as signin
\* and cleanup do) or stores a session under its id (as setRole does); any
\* callback may return an error instead
Callbacks == {"revoke", "create"}

\* a goroutine calls ForEach
StartForEach(p, cb) ==
    /\ proc[p].pc = "idle"
    /\ proc' = [proc EXCEPT ![p] =
                 [Idle EXCEPT !.pc = "fe_lock", !.op = "forEach", !.cb = cb]]
    /\ UNCHANGED <<now, store, nextId, db, accounts, pending, ttl, mu, lin, diff>>

\* ForEach: s.mu.RLock()
ForEachRLock(p) ==
    /\ proc[p].pc = "fe_lock"
    /\ CanRLock(mu)
    /\ mu' = [mu EXCEPT !.readers = @ \cup {p}]
    /\ proc' = Upd(p, [pc |-> "fe_copy"])
    /\ UNCHANGED <<now, store, nextId, db, accounts, pending, ttl, lin, diff>>

\* ForEach: the loop that appends every session to tmp
ForEachCopy(p) ==
    /\ proc[p].pc = "fe_copy"
    /\ proc' = Upd(p, [pc |-> "fe_unlock", snap |-> Snapshot(store),
                       snap0 |-> DOMAIN store])
    /\ UNCHANGED <<now, store, nextId, db, accounts, pending, ttl, mu, lin, diff>>

ForEachKeepLock(p) ==
    /\ proc[p].pc = "fe_unlock"
    /\ proc' = Upd(p, [pc |-> "fe_loop"])
    /\ UNCHANGED <<now, store, nextId, db, accounts, pending, ttl, mu, lin, diff>>

\* ForEach: s.mu.RUnlock(), before the loop over tmp
ForEachRUnlock(p) ==
    /\ proc[p].pc = "fe_unlock"
    /\ mu' = [mu EXCEPT !.readers = @ \ {p}]
    /\ proc' = Upd(p, [pc |-> "fe_loop"])
    /\ UNCHANGED <<now, store, nextId, db, accounts, pending, ttl, lin, diff>>

\* ForEach: the loop over tmp.  The callback is called on the next session (tmp
\* is in the order the map was ranged over, which is any order); it returns an
\* error, which ForEach returns, or goes on to its call of the store
ForEachCall(p) ==
    /\ proc[p].pc = "fe_loop"
    /\ proc' \in
         IF proc[p].snap = <<>>
         THEN {Return(p, Nil)}
         ELSE {Upd(p, [pc |-> "done", result |-> ErrInternal,
                       snap |-> RevokeSession(proc[p].snap, i),
                       visited |-> proc[p].visited \cup {i}])
                 : i \in DOMAIN proc[p].snap}
              \cup
              {Upd(p, [pc |-> "st_lock", call |-> proc[p].cb, sid |-> i,
                       arg |-> proc[p].snap[i],
                       snap |-> RevokeSession(proc[p].snap, i),
                       visited |-> proc[p].visited \cup {i}])
                 : i \in DOMAIN proc[p].snap}
    /\ UNCHANGED <<now, store, nextId, db, accounts, pending, ttl, mu, lin, diff>>

\* the calls a goroutine may make on the store
StoreCalls(p) ==
    \/ \E call \in Writers \cup {"invoke"}, sid \in SessionIds : StartStore(p, call, sid)
    \/ StartStore(p, "count", 0)
    \/ \E cb \in Callbacks : StartForEach(p, cb)

\* a step of a call on the store
StoreStep(p) ==
    \/ StoreLock(p)
    \/ StoreRead(p)
    \/ StoreWrite(p)
    \/ StoreUnlock(p)
    \/ ForEachRLock(p)
    \/ ForEachCopy(p)
    \/ ForEachRUnlock(p)
    \/ ForEachCall(p)

\* ---------------------------------------------------------------- diffSlices

\* the names of the roles in the lists diffSlices is called with
RoleNames == {"a", "b", "c"}

\* the lists of at most MaxRoles names, repetitions included
RoleLists == UNION {[1..k -> RoleNames] : k \in 0..MaxRoles}

\* UpdateCredentials calls diffSlices(old, new)
CallDiffSlices ==
    /\ ~diff.called
    /\ diff' = [old |-> diff.old, new |-> diff.new,
                toDelete |-> DiffSlices(diff.old, diff.new).toDelete,
                toAdd |-> DiffSlices(diff.old, diff.new).toAdd,
                called |-> TRUE]
    /\ UNCHANGED <<now, store, nextId, db, accounts, proc, pending, ttl, mu, lin>>

\* ----------------------------------------------------------------- cleanup

\* the ticker of cleanup fires and a goroutine is started with the tick time
StartCleanup(p) ==
    /\ proc[p].pc = "idle"
    /\ proc' = [proc EXCEPT ![p] = [Idle EXCEPT !.pc = "cl_count", !.op = "cleanup",
                                                !.nowv = now]]
    /\ UNCHANGED <<now, store, nextId, db, accounts, pending, ttl, mu, lin, diff>>

\* the goroutine returns when Count is 0
CleanupCount(p) ==
    /\ proc[p].pc = "cl_count"
    /\ proc' = IF Count(store) = 0 THEN Return(p, Nil) ELSE Upd(p, [pc |-> "cl_snapshot"])
    /\ UNCHANGED <<now, store, nextId, db, accounts, pending, ttl, mu, lin, diff>>

SweepMatchesLive(snap, t) ==
    Matching(snap, {i \in DOMAIN snap : Unix(snap[i].exp) > Unix(t)})

\* the callback of cleanup's ForEach: it returns at once on a session with
\* s.exp.Unix() > t.Unix() and revokes every other
SweepMatches(snap, t) ==
    Matching(snap, {i \in DOMAIN snap : ~(Unix(snap[i].exp) > Unix(t))})

\* the snapshot of cleanup's ForEach
CleanupSnapshot(p) ==
    /\ proc[p].pc = "cl_snapshot"
    /\ proc' = Upd(p, [pc |-> "cl_scan", read |-> Snapshot(store),
                       snap |-> SweepMatches(Snapshot(store), proc[p].nowv)])
    /\ UNCHANGED <<now, store, nextId, db, accounts, pending, ttl, mu, lin, diff>>

\* one call of the callback on a session it revokes
CleanupRevoke(p, i) ==
    /\ proc[p].pc = "cl_scan"
    /\ i \in DOMAIN proc[p].snap
    /\ store' = RevokeSession(store, i)
    /\ proc' = Upd(p, [snap |-> RevokeSession(proc[p].snap, i),
                       scanned |-> proc[p].scanned \cup {i}])
    /\ UNCHANGED <<now, nextId, db, accounts, pending, ttl, mu, lin, diff>>

\* ForEach has called the callback on every session: the goroutine ends
CleanupReturn(p) ==
    /\ proc[p].pc = "cl_scan"
    /\ proc[p].snap = <<>>
    /\ proc' = Return(p, Nil)
    /\ UNCHANGED <<now, store, nextId, db, accounts, pending, ttl, mu, lin, diff>>

Cleanup(p) ==
    \/ StartCleanup(p)
    \/ CleanupCount(p)
    \/ CleanupSnapshot(p)
    \/ \E i \in SessionIds : CleanupRevoke(p, i)
    \/ CleanupReturn(p)

\* ------------------------------------------------------------- store.Reset

\* a goroutine calls Reset
StartReset(p) ==
    /\ proc[p].pc = "idle"
    /\ proc' = [proc EXCEPT ![p] =
                 [Idle EXCEPT !.pc = "rs_lock", !.op = "reset", !.call = "reset"]]
    /\ UNCHANGED <<now, store, nextId, db, accounts, pending, ttl, mu, lin, diff>>

\* Reset: s.mu.Lock()
ResetLock(p) ==
    /\ proc[p].pc = "rs_lock"
    /\ CanLock(mu)
    /\ mu' = [mu EXCEPT !.writer = p]
    /\ proc' = Upd(p, [pc |-> "rs_make"])
    /\ UNCHANGED <<now, store, nextId, db, accounts, pending, ttl, lin, diff>>

\* Reset: s.sessions = make(map[string]*Session)
ResetMake(p) ==
    /\ proc[p].pc = "rs_make"
    /\ store' = <<>>
    /\ lin' = <<>>
    /\ proc' = Upd(p, [pc |-> "rs_unlock", result |-> Nil])
    /\ UNCHANGED <<now, nextId, db, accounts, pending, ttl, mu, diff>>

\* Reset: the deferred s.mu.RUnlock(), on a mutex that is locked for writing.
\* With no reader waiting in RLock the runtime stops the program ("fatal error:
\* sync: RUnlock of unlocked RWMutex"); with a reader waiting the call takes one
\* off the reader count and returns, and Reset returns nil.  The mutex stays
\* locked for writing in both cases: no Unlock is ever called.  The goroutines
\* that may be waiting in RLock are those of InvokeSession, Count and ForEach
\* that have not passed it.
ResetRUnlock(p) ==
    /\ proc[p].pc = "rs_unlock"
    /\ proc' \in {Upd(p, [pc |-> "fatal", call |-> "none"])}
                 \cup IF \E q \in Procs :
                              \/ proc[q].pc = "st_lock" /\ proc[q].call \in Readers
                              \/ proc[q].pc = "fe_lock"
                      THEN {Upd(p, [pc |-> "done", call |-> "none"])}
                      ELSE {}
    /\ UNCHANGED <<now, store, nextId, db, accounts, pending, ttl, mu, lin, diff>>

\* ------------------------------------------- role mutation and cancellation

\* a role request whose context is done (done = TRUE) or not when it starts; a
\* context that is done stays done
StartRoleCtx(p, op, sid, account, role, done) ==
    /\ proc[p].pc = "idle"
    /\ proc' = [proc EXCEPT ![p] =
                 [Idle EXCEPT !.pc = "sr_resolve", !.op = op, !.sid = sid,
                              !.account = account, !.role = role,
                              !.ctxDone = done]]
    /\ UNCHANGED <<now, store, nextId, db, accounts, pending, ttl, mu, lin, diff>>

\* ------------------------------------------------------------------ specs

\* the session lifecycle: sign-in, sign-out, validation and lazy revocation
Next ==
    \/ Tick
    \/ \E p \in Procs : Finish(p)
    \/ \E p \in Procs : Signin(p)
    \/ \E p \in Procs : Signout(p)
    \/ \E p \in Procs : Session(p)
    \/ \E i \in SessionIds : AsyncRevoke(i)

Spec == Init /\ [][Next]_vars

\* role requests beside sign-in and sign-out
NextRoles ==
    \/ Tick
    \/ \E p \in Procs : Finish(p)
    \/ \E p \in Procs : Signin(p)
    \/ \E p \in Procs : Signout(p)
    \/ \E p \in Procs : Role(p)

SpecRoles == Init /\ [][NextRoles]_vars

\* sign-up: it reads and writes the repository and the account provider only
NextSignup ==
    \/ \E p \in Procs : Finish(p)
    \/ \E p \in Procs : Signup(p)

SpecSignup == Init /\ [][NextSignup]_vars

\* the role requests of a deployment whose store holds a session with the admin
\* flag set (no handler sets it): the steps after the admin test
InitAdmin ==
    /\ ttl = New(TTL)
    /\ mu = Unlocked
    /\ lin = <<>>
    /\ diff = NoDiff
    /\ now = 0
    /\ store = (1 :> [AdminSession EXCEPT !.admin = TRUE])
    /\ nextId = 2
    /\ db = (1 :> [login |-> "alice", passhash |-> Hash("pw"), roles |-> <<"editor">>])
    /\ accounts = {1}
    /\ proc = [p \in Procs |-> Idle]
    /\ pending = {}

NextAdmin ==
    \/ \E p \in Procs : Finish(p)
    \/ \E p \in Procs : Signin(p)
    \/ \E p \in Procs : Role(p)
    \/ \E p \in Procs : RoleMutation(p)

\* the values of Config.TTL a deployment is built with, in ticks
ConfigTTLs == -1..TTL

\* a Goard built by New from any of these values, and its sign-ins
InitTTL ==
    /\ ttl \in {New(c) : c \in ConfigTTLs}
    /\ mu = Unlocked
    /\ lin = <<>>
    /\ diff = NoDiff
    /\ now = 0
    /\ store = <<>>
    /\ nextId = 1
    /\ db = (1 :> [login |-> "alice", passhash |-> Hash("pw"), roles |-> <<"editor">>])
    /\ accounts = {1}
    /\ proc = [p \in Procs |-> Idle]
    /\ pending = {}

NextTTL ==
    \/ Tick
    \/ \E p \in Procs : Finish(p)
    \/ \E p \in Procs : Signin(p)

SpecTTL == InitTTL /\ [][NextTTL]_vars

\* the store under concurrent calls, a call cut at its lock, its access to the
\* map and its unlock
NextStore ==
    \/ \E p \in Procs : Finish(p)
    \/ \E p \in Procs : StoreCalls(p)
    \/ \E p \in Procs : StoreStep(p)

SpecStore == Init /\ [][NextStore]_vars

\* the same, with every goroutine scheduled again and again and none starved at
\* the lock
SpecStoreFair == SpecStore /\ \A p \in Procs : SF_vars(StoreStep(p))

\* guarded requests beside sign-in
NextGuard ==
    \/ Tick
    \/ \E p \in Procs : Finish(p)
    \/ \E p \in Procs : Signin(p)
    \/ \E p \in Procs : Guard(p)
    \/ \E i \in SessionIds : AsyncRevoke(i)

SpecGuard == Init /\ [][NextGuard]_vars

\* diffSlices on every pair of lists
InitDiff ==
    /\ diff \in {[old |-> o, new |-> n, toDelete |-> <<>>, toAdd |-> <<>>, called |-> FALSE]
                   : o \in RoleLists, n \in RoleLists}
    /\ ttl = New(TTL)
    /\ mu = Unlocked
    /\ lin = <<>>
    /\ now = 0
    /\ store = <<>>
    /\ nextId = 1
    /\ db = (1 :> [login |-> "alice", passhash |-> Hash("pw"), roles |-> <<"editor">>])
    /\ accounts = {1}
    /\ proc = [p \in Procs |-> Idle]
    /\ pending = {}

NextDiff == CallDiffSlices

SpecDiff == InitDiff /\ [][NextDiff]_vars

\* the sweeper beside sign-in
NextSweep ==
    \/ Tick
    \/ \E p \in Procs : Finish(p)
    \/ \E p \in Procs : Signin(p)
    \/ \E p \in Procs : Cleanup(p)

SpecSweep == Init /\ [][NextSweep]_vars

\* the store under concurrent calls, Reset among them
NextReset ==
    \/ NextStore
    \/ \E p \in Procs : StartReset(p)
    \/ \E p \in Procs : ResetLock(p)
    \/ \E p \in Procs : ResetMake(p)
    \/ \E p \in Procs : ResetRUnlock(p)

SpecReset == Init /\ [][NextReset]_vars

\* sign-ins from the goroutine p1 while the sweeper runs in its own, p2
NextSweeper ==
    \/ Tick
    \/ \E p \in Procs : Finish(p)
    \/ Signin("p1")
    \/ Cleanup("p2")

\* NextSweeper with the ticker of cleanup firing again and again, and every
\* goroutine that has started running to its end
SpecSweeperFair ==
    /\ Init /\ [][NextSweeper]_vars
    /\ SF_vars(StartCleanup("p2"))
    /\ \A p \in Procs : /\ WF_vars(InFlight(p) /\ (Signin(p) \/ Cleanup(p)))
                          /\ WF_vars(Finish(p))

\* role requests that carry the state of their context, with a session that
\* passes the admin test in the store
NextCancel ==
    \/ \E p \in Procs : Finish(p)
    \/ \E p \in Procs : Signin(p)
    \/ \E p \in Procs, sid \in SessionIds, in \in RoleInputs, done \in CtxDone :
         StartRoleCtx(p, "setRole", sid, in[1], in[2], done)
    \/ \E p \in Procs, sid \in SessionIds, in \in RoleInputs, done \in CtxDone :
         StartRoleCtx(p, "unsetRole", sid, in[1], in[2], done)
    \/ \E p \in Procs : RoleResolve(p)
    \/ \E p \in Procs : RoleMutation(p)

SpecCancel == InitAdmin /\ [][NextCancel]_vars

\* the state of InitAdmin once the expiresAt of the admin-flagged session has
\* passed, before a sweep or a validation has removed it
InitExpired ==
    /\ ttl = New(TTL)
    /\ mu = Unlocked
    /\ lin = <<>>
    /\ diff = NoDiff
    /\ now = TTL
    /\ store = (1 :> [AdminSession EXCEPT !.admin = TRUE, !.iss = 0, !.exp = TTL])
    /\ nextId = 2
    /\ db = (1 :> [login |-> "alice", passhash |-> Hash("pw"), roles |-> <<"editor">>])
    /\ accounts = {1}
    /\ proc = [p \in Procs |-> Idle]
    /\ pending = {}

\* role requests made while the clock stands at or after that expiresAt
SpecExpired == InitExpired /\ [][NextAdmin]_vars

\* grants of two roles to account 1 and sign-ins, nothing that takes a role
\* away, with a session that passes the admin test in the store
NextGrants ==
    \/ \E p \in Procs : Finish(p)
    \/ \E p \in Procs : Signin(p)
    \/ \E p \in Procs, sid \in SessionIds, role \in {"admin", "auditor"} :
         StartRole(p, "setRole", sid, 1, role)
    \/ \E p \in Procs : RoleResolve(p)
    \/ \E p \in Procs : RoleMutation(p)

SpecGrants == InitAdmin /\ [][NextGrants]_vars

\* role requests beside sign-ins and sign-outs, with a session that passes the
\* admin test in the store
NextRevive ==
    \/ \E p \in Procs : Finish(p)
    \/ \E p \in Procs : Signin(p)
    \/ \E p \in Procs : Signout(p)
    \/ \E p \in Procs : Role(p)
    \/ \E p \in Procs : RoleMutation(p)

SpecRevive == InitAdmin /\ [][NextRevive]_vars

\* ----------------------------------------------------------------- claims

\* p's handler returns in this step
Returns(p) == InFlight(p) /\ proc'[p].pc = "done"

\* the session was built by signinAsAdmin
IssuedByAdminSignin(session) == session.credentials.id = AdminCredentialsID

\* C1: when a sign-in for login L returns a session and no other sign-in for L
\* ran while it did, the store holds exactly one session of login L, the one
\* returned
C1_OneSessionPerLogin ==
    [][\A p \in Procs :
         (/\ proc[p].op = "signin"
          /\ Returns(p)
          /\ proc'[p].result = Nil
          /\ ~proc'[p].overlapped)
         => SessionsOfLogin(store', proc[p].login) = {proc'[p].ret}]_vars

C1_Witness ==
    \E p \in Procs :
      /\ proc[p].op = "signin" /\ proc[p].pc = "done" /\ proc[p].result = Nil
      /\ ~proc[p].overlapped
      /\ proc[p].scanned # {}
      /\ SessionsOfLogin(store, proc[p].login) = {proc[p].ret}

\* C2: a sign-in with the admin login and password returns and stores a session
\* with isAdmin = true and roles = {"admin"}
C2_AdminSessionIsAdmin ==
    [][\A p \in Procs :
         (/\ proc[p].op = "signin"
          /\ IsAdminSignin(p)
          /\ Returns(p)
          /\ proc'[p].result = Nil)
         => /\ proc'[p].ret \in DOMAIN store'
            /\ store'[proc'[p].ret].admin
            /\ SeqToSet(store'[proc'[p].ret].credentials.roles) = {"admin"}]_vars

\* C3: validation never returns a session whose expiresAt is at or before the
\* time it read: an absent id (or an empty store) gives SessionNotFound, a stored
\* session with expiresAt <= now gives SessionExpired
C3_ValidationRejectsExpired ==
    [][\A p \in Procs :
         (proc[p].op = "session" /\ Returns(p))
         => LET sid == proc[p].sid
                t == proc[p].nowv
            IN  /\ sid \notin DOMAIN store => proc'[p].result = ErrSessionNotFound
                /\ (sid \in DOMAIN store /\ store[sid].exp <= t)
                     => proc'[p].result = ErrSessionExpired
                /\ proc'[p].result = Nil
                     => /\ sid \in DOMAIN store
                        /\ store[sid].exp > t
                        /\ proc'[p].ret = sid]_vars

C3_Witness ==
    \E p \in Procs :
      /\ proc[p].op = "session" /\ proc[p].pc = "done"
      /\ proc[p].result = ErrSessionExpired
      /\ proc[p].sid \in DOMAIN store
      /\ store[proc[p].sid].exp = proc[p].nowv

\* a validation of the id has returned SessionExpired
ReportedExpired(p) ==
    proc[p].op = "session" /\ proc[p].pc = "done" /\ proc[p].result = ErrSessionExpired

SignupFaults == {ErrBadCredentials, ErrCanceled, ErrInternal}

LoginTaken(login) == \E c \in DOMAIN db : db[c].login = login

\* C5: a sign-up whose login already has a credential record returns
\* CredentialsConflict, DeleteAccount is called with the id of the account this
\* attempt created, and no credential record is created
C5_ConflictRollsBack ==
    [][\A p \in Procs :
         (/\ proc[p].op = "signup"
          /\ Returns(p)
          /\ LoginTaken(proc[p].login)
          /\ proc'[p].result \notin SignupFaults)
         => /\ proc'[p].result = ErrCredentialsConflict
            /\ proc[p].acc \in proc'[p].deleted
            /\ db' = db]_vars

\* C6: once CreateAccount has succeeded, DeleteAccount(new account id) is called
\* if and only if sign-up returns a failure
C6_RollbackIffFailure ==
    [][\A p \in Procs :
         (/\ proc[p].op = "signup"
          /\ proc[p].pc \in {"su_byid", "su_bylogin", "su_hash", "su_store"}
          /\ Returns(p))
         => (proc'[p].result # Nil <=> proc[p].acc \in proc'[p].deleted)]_vars

\* the acting session of p's role request is in the store and was issued by the
\* admin sign-in
ActsAsAdmin(p) ==
    /\ proc[p].sid \in DOMAIN store
    /\ IssuedByAdminSignin(store[proc[p].sid])

\* C7: a grant, by the session of the admin, of a role the target already holds
\* fails with RoleConflict and changes neither the repository nor the store
C7_GrantHeldRoleConflicts ==
    [][\A p \in Procs :
         (/\ proc[p].op = "setRole"
          /\ Returns(p)
          /\ ActsAsAdmin(p)
          /\ proc[p].account \in DOMAIN db
          /\ HasRole(db[proc[p].account].roles, proc[p].role))
         => /\ proc'[p].result = ErrRoleConflict
            /\ db' = db
            /\ store' = store]_vars

\* C8: a revocation, by the session of the admin, of a role the target does not
\* hold succeeds and leaves the roles of the repository and of the sessions as
\* they were
C8_RevokeAbsentRoleSucceeds ==
    [][\A p \in Procs :
         (/\ proc[p].op = "unsetRole"
          /\ Returns(p)
          /\ ActsAsAdmin(p)
          /\ proc[p].account \in DOMAIN db
          /\ ~HasRole(db[proc[p].account].roles, proc[p].role))
         => /\ proc'[p].result = Nil
            /\ db'[proc[p].account].roles = db[proc[p].account].roles
            /\ \A i \in SessionsOfAccount(store', proc[p].account) :
                 i \in DOMAIN store
                 /\ store'[i].credentials.roles = store[i].credentials.roles]_vars

\* C9: a grant or a revocation whose acting session is not admin fails with
\* AccessDenied, and one whose acting id is not in the store with
\* SessionNotFound, before any repository call and with the repository and the
\* store unchanged
C9_NonAdminDenied ==
    [][\A p \in Procs :
         (/\ proc[p].op \in {"setRole", "unsetRole"}
          /\ proc[p].pc = "sr_resolve"
          /\ proc'[p] # proc[p])
         => /\ proc[p].sid \notin DOMAIN store
                 => proc'[p].pc = "done" /\ proc'[p].result = ErrSessionNotFound
            /\ (proc[p].sid \in DOMAIN store /\ ~store[proc[p].sid].admin)
                 => proc'[p].pc = "done" /\ proc'[p].result = ErrAccessDenied
            /\ proc'[p].called = {}
            /\ db' = db
            /\ store' = store]_vars

C9_Witness ==
    \E p, q \in Procs :
      /\ proc[p].op = "setRole" /\ proc[p].pc = "done"
      /\ proc[p].result = ErrAccessDenied /\ proc[p].called = {}
      /\ proc[p].sid \in DOMAIN store
      /\ proc[q].op = "unsetRole" /\ proc[q].pc = "done"
      /\ proc[q].result = ErrSessionNotFound /\ proc[q].called = {}

\* C10: a grant of role r to account A, by the session of the admin, while a
\* session of A is in the store, succeeds and leaves every session of A stored
\* with r among its roles
C10_GrantReachesSessions ==
    [][\A p \in Procs :
         (/\ proc[p].op = "setRole"
          /\ Returns(p)
          /\ ActsAsAdmin(p)
          /\ proc[p].account \in DOMAIN db
          /\ ~HasRole(db[proc[p].account].roles, proc[p].role)
          /\ SessionsOfAccount(store, proc[p].account) # {})
         => /\ proc'[p].result = Nil
            /\ \A i \in SessionsOfAccount(store', proc[p].account) :
                 HasRole(store'[i].credentials.roles, proc[p].role)]_vars

\* C11: every session in the store has expiresAt = issuedAt + ttl and
\* expiresAt > issuedAt, for every ttl New keeps from the configuration
C11_SessionLifetime ==
    \A i \in DOMAIN store :
      /\ store[i].exp = store[i].iss + ttl
      /\ store[i].exp > store[i].iss

\* p is between the lock and the unlock of a call, or of ForEach's copy
InSection(p) == proc[p].pc \in {"st_read", "st_write", "st_unlock", "fe_copy", "fe_unlock"}

\* p is between the Lock and the Unlock of CreateSession or RevokeSession
InWriteSection(p) ==
    proc[p].pc \in {"st_read", "st_write", "st_unlock"} /\ proc[p].call \in Writers

\* C12: under any interleaving of CreateSession, InvokeSession, RevokeSession
\* and Count, no writer is between its lock and unlock while another call is,
\* the sessions are those the calls leave when run one after another, and every
\* reader returns what it returns in that order
C12_StoreSerializable ==
    /\ \A p, q \in Procs : (p # q /\ InWriteSection(p)) => ~InSection(q)
    /\ store = lin
    /\ \A p \in Procs :
         (proc[p].pc = "done" /\ proc[p].op \in Readers)
         => [err |-> proc[p].result, value |-> proc[p].ret] = proc[p].expect

C12_Witness ==
    \E p, q \in Procs :
      /\ p # q
      /\ proc[p].op = "create" /\ proc[p].pc = "st_unlock"
      /\ proc[q].op = "create" /\ proc[q].pc = "st_lock" /\ proc[q].sid # proc[p].sid
      /\ Count(store) = MaxSessions

\* ForEach holds no lock while a callback runs; it calls back on sessions of
\* its copy only, and on all of them when it returns nil
ForEachUnlocked ==
    \A p \in Procs :
      proc[p].op = "forEach"
      => /\ proc[p].pc \in {"fe_loop", "st_lock"} => (p \notin mu.readers /\ mu.writer # p)
         /\ proc[p].visited \subseteq proc[p].snap0
         /\ (proc[p].pc = "done" /\ proc[p].result = Nil)
              => proc[p].visited = proc[p].snap0

\* a pass of ForEach's loop calls back on one more session of the copy; ForEach
\* returns nil only after the last one, and returns at once when the callback
\* returns an error
ForEachStopsAtError ==
    [][\A p \in Procs :
         (proc[p].op = "forEach" /\ proc[p].pc = "fe_loop" /\ proc'[p] # proc[p])
         => IF proc[p].snap = <<>>
            THEN proc'[p].pc = "done" /\ proc'[p].result = Nil
            ELSE /\ \E i \in DOMAIN proc[p].snap :
                      proc'[p].visited = proc[p].visited \cup {i}
                 /\ proc'[p].pc = "done" => proc'[p].result = ErrInternal
                 /\ store' = store]_vars

\* a ForEach that has started returns
ForEachReturns ==
    \A p \in Procs :
      (proc[p].op = "forEach" /\ InFlight(p)) ~> (proc[p].pc = "done")

\* C13: ForEach holds the lock only while it copies the sessions; a callback
\* that calls CreateSession or RevokeSession completes, the callback is called
\* on exactly the sessions of the copy whatever is done to the store meanwhile,
\* and ForEach stops at the first error of the callback and returns it
C13_ForEachSnapshot == []ForEachUnlocked /\ ForEachStopsAtError /\ ForEachReturns

C13_Witness ==
    \E p \in Procs :
      /\ proc[p].op = "forEach" /\ proc[p].pc = "done" /\ proc[p].result = Nil
      /\ proc[p].cb = "revoke"
      /\ Cardinality(proc[p].visited) = MaxSessions
      /\ store # <<>>

\* C14: Guard lets the protected handler run only when the carried id is not
\* empty, validation returned a live session and the predicate is true on it;
\* the predicate is not evaluated for a missing or an expired session; a false
\* predicate gives Forbidden, a missing or expired session gives Unauthorized
C14_GuardServesOnlyValid ==
    [][\A p \in Procs :
         (proc[p].op = "guard" /\ Returns(p))
         => LET sid == proc[p].sid
                valid == /\ sid # NoSessionID
                         /\ sid \in DOMAIN store
                         /\ store[sid].exp > proc[p].nowv
                         /\ proc'[p].result = Nil
            IN  /\ proc'[p].served
                     => valid /\ proc[p].filter \in SeqToSet(store[sid].credentials.roles)
                /\ proc'[p].filtered => valid
                /\ (valid /\ proc[p].filter \notin SeqToSet(store[sid].credentials.roles))
                     => proc'[p].status = Forbidden /\ ~proc'[p].served
                /\ (sid = NoSessionID
                    \/ proc'[p].result \in {ErrSessionNotFound, ErrSessionExpired})
                     => /\ proc'[p].status = Unauthorized
                        /\ ~proc'[p].filtered
                        /\ ~proc'[p].served
                /\ Forbidden # Unauthorized]_vars

C14_Witness ==
    \E p, q \in Procs :
      /\ proc[p].op = "guard" /\ proc[p].pc = "done"
      /\ proc[p].status = Forbidden /\ proc[p].filtered
      /\ proc[q].op = "guard" /\ proc[q].pc = "done"
      /\ proc[q].result = ErrSessionExpired /\ proc[q].status = Unauthorized
      /\ proc[q].sid = proc[p].sid

\* C15: a sign-out whose context is not cancelled succeeds, whether or not the
\* id is in the store and whether or not the store is empty; it removes the
\* given id and leaves every other session as it was
C15_SignoutIdempotent ==
    [][\A p \in Procs :
         (proc[p].op = "signout" /\ Returns(p) /\ ~proc'[p].ctxDone)
         => /\ proc'[p].result = Nil
            /\ DOMAIN store' = DOMAIN store \ {proc[p].sid}
            /\ \A i \in DOMAIN store' : store'[i] = store[i]]_vars

C15_Witness ==
    \E p, q \in Procs :
      /\ proc[p].op = "signout" /\ proc[p].pc = "done" /\ proc[p].result = Nil
      /\ proc[p].call = "revoke" /\ proc[p].scanned = {}
      /\ proc[q].op = "signout" /\ proc[q].pc = "done" /\ proc[q].result = Nil
      /\ proc[q].sid = proc[p].sid /\ proc[q].scanned = {proc[q].sid}
      /\ store # <<>>

\* C16: a sign-in with an empty login or an empty password returns
\* BadCredentials in its first step: it revokes and creates no session and
\* calls neither the repository, the account provider nor the hasher
C16_EmptyInputRejectedFirst ==
    [][\A p \in Procs :
         (/\ proc[p].op = "signin"
          /\ proc[p].login = "" \/ proc[p].password = ""
          /\ InFlight(p)
          /\ proc'[p].pc # proc[p].pc)
         => /\ proc'[p].pc = "done"
            /\ proc'[p].result = ErrBadCredentials
            /\ proc'[p].called = {}
            /\ proc'[p].scanned = {}
            /\ store' = store
            /\ nextId' = nextId]_vars

C16_Witness ==
    \E p, q \in Procs :
      /\ proc[p].op = "signin" /\ proc[p].pc = "done"
      /\ proc[p].login = "" /\ proc[p].result = ErrBadCredentials
      /\ proc[q].op = "signin" /\ proc[q].pc = "done"
      /\ proc[q].password = "" /\ proc[q].result = ErrBadCredentials
      /\ SessionsOfLogin(store, proc[q].login) # {}

\* C17: diffSlices(old, new) returns as toDelete the elements of old that are
\* not in new and as toAdd the elements of new that are not in old (as sets), so
\* old without toDelete, with toAdd, is new; both are empty when old = new; and
\* diffSlices([a, b], [b, c]) = ([a], [c])
C17_DiffSlicesIsSetDifference ==
    diff.called
    => LET old == SeqToSet(diff.old)
           new == SeqToSet(diff.new)
           toDelete == SeqToSet(diff.toDelete)
           toAdd == SeqToSet(diff.toAdd)
       IN  /\ toDelete = old \ new
           /\ toAdd = new \ old
           /\ (old \ toDelete) \cup toAdd = new
           /\ diff.old = diff.new => (diff.toDelete = <<>> /\ diff.toAdd = <<>>)
           /\ (diff.old = <<"a", "b">> /\ diff.new = <<"b", "c">>)
                => (diff.toDelete = <<"a">> /\ diff.toAdd = <<"c">>)

C17_Witness ==
    /\ diff.called
    /\ diff.old = <<"a", "b">> /\ diff.new = <<"b", "c">>
    /\ diff.toDelete = <<"a">> /\ diff.toAdd = <<"c">>

\* C18: the insert of a sign-in revokes nothing: a session that another sign-in
\* for the same login inserted after this one's scan stays beside the new one,
\* so two sign-ins for a login that both scan before either inserts both return
\* a session and the store holds the two
C18_InsertKeepsConcurrentSession ==
    [][\A p \in Procs :
         (/\ proc[p].op = "signin"
          /\ Returns(p)
          /\ proc'[p].result = Nil)
         => /\ DOMAIN store' = DOMAIN store \cup {proc'[p].ret}
            /\ \A i \in DOMAIN store : store'[i] = store[i]
            /\ SessionsOfLogin(store', proc[p].login)
                 = SessionsOfLogin(store, proc[p].login) \cup {proc'[p].ret}]_vars

C18_Witness ==
    \E p, q \in Procs :
      /\ p # q
      /\ proc[p].op = "signin" /\ proc[p].pc = "done" /\ proc[p].result = Nil
      /\ proc[q].op = "signin" /\ proc[q].pc = "done" /\ proc[q].result = Nil
      /\ proc[p].login = proc[q].login
      /\ proc[p].scanned = {} /\ proc[q].scanned = {}
      /\ proc[p].ret # proc[q].ret
      /\ SessionsOfLogin(store, proc[p].login) = {proc[p].ret, proc[q].ret}

\* C19: the scan of a sign-in for login L takes the sessions of L in the store,
\* every one of them is revoked before the admin match, the credential lookup
\* and the password verification, and when the sign-in then fails with
\* CredentialsNotFound or CredentialsMismatch those sessions are gone and no
\* session was inserted
C19_RevokedBeforeVerification ==
    [][\A p \in Procs :
         proc[p].op = "signin"
         => /\ (proc[p].pc = "si_begin" /\ proc'[p].pc = "si_scan")
                 => DOMAIN proc'[p].snap = SessionsOfLogin(store, proc[p].login)
            /\ (proc[p].pc = "si_scan" /\ proc'[p].pc = "si_scan"
                /\ proc'[p].snap # proc[p].snap)
                 => \E i \in DOMAIN proc[p].snap :
                      /\ DOMAIN proc'[p].snap = DOMAIN proc[p].snap \ {i}
                      /\ proc'[p].scanned = proc[p].scanned \cup {i}
                      /\ i \notin DOMAIN store'
            /\ (proc[p].pc = "si_scan" /\ proc'[p].pc # "si_scan")
                 => proc[p].snap = <<>>
            /\ (Returns(p)
                /\ proc'[p].result \in {ErrCredentialsNotFound, ErrCredentialsMismatch})
                 => /\ proc[p].scanned \cap DOMAIN store' = {}
                    /\ store' = store
                    /\ nextId' = nextId
                    /\ proc'[p].ret = 0]_vars

C19_Witness ==
    \E p \in Procs :
      /\ proc[p].op = "signin" /\ proc[p].pc = "done"
      /\ proc[p].result = ErrCredentialsMismatch
      /\ proc[p].scanned # {}
      /\ SessionsOfLogin(store, proc[p].login) = {}

\* C20: a sweep for the tick time t that found the store not empty has revoked
\* the sessions of its snapshot whose expiresAt is at or before t, and no
\* session whose expiresAt is later than t
C20_SweepRevokesExactlyExpired ==
    \A p \in Procs :
      (proc[p].op = "cleanup" /\ proc[p].pc = "done" /\ proc[p].read # <<>>)
      => proc[p].scanned = {i \in DOMAIN proc[p].read : proc[p].read[i].exp <= proc[p].nowv}

\* C23: session validation returns the stored session as live whenever its
\* expiresAt is later than the time it read, also when the two fall in the
\* same whole second
C23_LiveWhenLaterThanNow ==
    [][\A p \in Procs :
         ( /\ proc[p].op = "session"
           /\ proc[p].pc = "se_invoke"
           /\ Returns(p)
           /\ Found(store, proc[p].sid)
           /\ store[proc[p].sid].exp > proc[p].nowv )
         => proc'[p].result = Nil]_vars

\* C27: a call of Reset returns nil, and once it has returned it no longer
\* holds the store lock
C27_ResetReleasesLock ==
    \A p \in Procs :
      proc[p].op = "reset"
      => /\ proc[p].pc # "fatal"
         /\ proc[p].pc = "done" => (mu.writer # p /\ proc[p].result = Nil)

\* C21: with the sweeper ticking again and again, a session that is in the
\* store once its expiresAt has passed is eventually absent from the store and
\* stays absent
C21_ExpiredEventuallySwept ==
    \A i \in SessionIds :
      (Found(store, i) /\ store[i].exp <= now) ~> [](~Found(store, i))

C21_Witness ==
    \E p \in Procs, i \in SessionIds :
      /\ proc[p].op = "cleanup" /\ proc[p].pc = "done"
      /\ i \in proc[p].scanned
      /\ proc[p].read[i].exp <= proc[p].nowv
      /\ ~Found(store, i)
      /\ store # <<>>

====
